---------------------------- MODULE Spec2Model ----------------------------
(***************************************************************************)
(* Model of src/lib.rs: the untagged union UntaggedOption<T> (a region     *)
(* that holds a T or nothing, with no discriminant), its five operations   *)
(* none, some, take, as_ref, as_mut, and a caller that owns one container, *)
(* keeps its own occupancy flag and disposes of the values it takes out.   *)
(* T is a type with an observable payload (as the u8 of static_context)    *)
(* and a destructor that increments DROPCOUNT (as MyDrop of correct_drop). *)
(***************************************************************************)
EXTENDS Integers, FiniteSets, Sequences, TLC

\* ---------------------------------------------------------------- bounds
MaxVal == 2          \* payloads of T are 0..MaxVal
MaxConstructed == 2  \* at most this many calls of some()
MaxTakes == 2        \* at most this many calls of take()
MaxSize == 32        \* sizes of T considered by the layout computation

Values == 0 .. MaxVal
Uninit == << >>      \* bytes of the region that are not a valid T
NoVal == << >>       \* no value returned / held
NoSize == << >>      \* size_of not yet evaluated
Valid(v) == <<v>>    \* the region, or a slot of the caller, holding the T v
ValidValues == { Valid(v) : v \in Values }
NoExpect == [src |-> "none", val |-> 0]

\* ------------------------------------------------------------ type layout
Aligns == {1, 2, 4, 8}
\* layouts of T: the size of a type is a multiple of its alignment
Layouts == { l \in [size : 0 .. MaxSize, align : Aligns] : l.size % l.align = 0 }
U8Layout == [size |-> 1, align |-> 1]
UnitLayout == [size |-> 0, align |-> 1]

Max(a, b) == IF a >= b THEN a ELSE b
RoundUp(n, a) == ((n + a - 1) \div a) * a

\* layout of a tagged option without a niche: a discriminant byte is added
TaggedSize(t) == RoundUp(t.size + 1, t.align)

\* union UntaggedOption<T> { some: T, none: () }: every field at offset 0,
\* size the largest field rounded up to the largest alignment
UntaggedOptionSize(t) ==
    RoundUp(Max(t.size, UnitLayout.size), Max(t.align, UnitLayout.align))

\* ------------------------------------------------------- pure operations
\* UntaggedOption { none: () }: nothing is written, the region is not a T
none == [region |-> Uninit]

\* mutant: stores nothing
some_forgets(t) == [region |-> Uninit]

\* UntaggedOption { some: t }
some(t) == [region |-> Valid(t)]

\* reading field `some`: the stored T, or, when the region is not a valid
\* T, undefined behaviour: any value g of T
ReadSome(u, g) ==
    IF u.region = Uninit THEN [val |-> g, ub |-> TRUE]
                         ELSE [val |-> u.region[1], ub |-> FALSE]

\* mutant: the store through the reference is lost
WriteSome_lost(u, w) == u

\* a store of w through the reference &mut self.some
WriteSome(u, w) == [region |-> Valid(w)]

\* mutant: returns the new value instead of the old one
replace_new(dest, src) == [old |-> src, dest |-> src]

\* core::mem::replace(dest, src): stores src, returns the old contents
replace(dest, src) == [old |-> dest, dest |-> src]

\* mutant: reads the value out but leaves the region as it is
take_copy(self, g) ==
    LET rd == ReadSome(self, g)
    IN  [ret |-> Valid(rd.val), ub |-> rd.ub, self |-> self]

\* mutant: refuses to read an uninitialised region
take_checked(self, g) ==
    IF self.region = Uninit
      THEN [ret |-> NoVal, ub |-> TRUE, self |-> self]
      ELSE [ret |-> self.region, ub |-> FALSE, self |-> none]

\* replace(self, UntaggedOption::none()).some
take(self, g) ==
    LET r  == replace(self, none)
        rd == ReadSome(r.old, g)
    IN  [ret |-> Valid(rd.val), ub |-> rd.ub, self |-> r.dest]

\* &self.some, then read through the reference
as_ref(self, g) == ReadSome(self, g)

\* ------------------------------------------------------------------ state
VARIABLES
    storage,      \* "static" (static mut MY_OPT) or "local" (let mut opt)
    inScope,      \* the container variable is initialised (not moved out)
    opt,          \* the container: [region |-> a value of T or Uninit]
    occupied,     \* the caller's own occupancy flag
    expect,       \* the value the caller last put in and how: [src, val]
    held,         \* the value returned by take and not yet disposed of
    ret,          \* the value read by the last as_ref
    ubRead,       \* the last operation read the region while it was no T
    DROPCOUNT,    \* runs of T's destructor
    constructed,  \* calls of some()
    takes,        \* calls of take()
    lastOp,       \* the operation that produced this state
    tyT,          \* layout of T
    sizeOfOpt     \* size_of::<UntaggedOption<T>>() once evaluated

vars == <<storage, inScope, opt, occupied, expect, held, ret, ubRead,
          DROPCOUNT, constructed, takes, lastOp, tyT, sizeOfOpt>>

Occupied == opt.region \in ValidValues
Empty == opt.region = Uninit

Ops == {"init", "none", "some", "take", "as_ref", "as_mut", "drop", "dispose", "size_of"}

TypeOK ==
    /\ storage \in {"static", "local"}
    /\ inScope \in BOOLEAN
    /\ opt \in [region : ValidValues \cup {Uninit}]
    /\ occupied \in BOOLEAN
    /\ expect \in [src : {"none", "some", "as_mut"}, val : Values]
    /\ held \in ValidValues \cup {NoVal}
    /\ ret \in ValidValues \cup {NoVal}
    /\ ubRead \in BOOLEAN
    /\ DROPCOUNT \in 0 .. MaxTakes
    /\ constructed \in 0 .. MaxConstructed
    /\ takes \in 0 .. MaxTakes
    /\ lastOp \in Ops
    /\ tyT \in Layouts
    /\ sizeOfOpt \in {NoSize} \cup { <<n>> : n \in 0 .. 2 * MaxSize + 8 }

\* static mut MY_OPT: UntaggedOption<u8> = UntaggedOption::none();
\* let mut opt = UntaggedOption::none();
InitCell ==
    /\ storage \in {"static", "local"}
    /\ inScope = TRUE
    /\ opt = none
    /\ occupied = FALSE
    /\ expect = NoExpect
    /\ held = NoVal
    /\ ret = NoVal
    /\ ubRead = FALSE
    /\ DROPCOUNT = 0
    /\ constructed = 0
    /\ takes = 0
    /\ lastOp = "init"

Init == InitCell /\ tyT = U8Layout /\ sizeOfOpt = NoSize

\* ---------------------------------------------------------------- actions
\* opt = UntaggedOption::none(): a plain assignment, the union has no drop
\* glue, so the old contents are overwritten without running a destructor
AssignNone ==
    /\ opt' = none
    /\ inScope' = TRUE
    /\ occupied' = FALSE
    /\ expect' = NoExpect
    /\ ret' = NoVal
    /\ ubRead' = FALSE
    /\ lastOp' = "none"
    /\ UNCHANGED <<storage, held, DROPCOUNT, constructed, takes, tyT, sizeOfOpt>>

\* mutant: the assignment disposes of the value it overwrites
AssignSome_dropsOld(v) ==
    /\ constructed < MaxConstructed
    /\ opt' = some(v)
    /\ inScope' = TRUE
    /\ occupied' = TRUE
    /\ expect' = [src |-> "some", val |-> v]
    /\ ret' = NoVal
    /\ ubRead' = FALSE
    /\ constructed' = constructed + 1
    /\ DROPCOUNT' = IF inScope /\ Occupied THEN DROPCOUNT + 1 ELSE DROPCOUNT
    /\ lastOp' = "some"
    /\ UNCHANGED <<storage, held, takes, tyT, sizeOfOpt>>

\* opt = UntaggedOption::some(v)
AssignSome(v) ==
    /\ constructed < MaxConstructed
    /\ opt' = some(v)
    /\ inScope' = TRUE
    /\ occupied' = TRUE
    /\ expect' = [src |-> "some", val |-> v]
    /\ ret' = NoVal
    /\ ubRead' = FALSE
    /\ constructed' = constructed + 1
    /\ lastOp' = "some"
    /\ UNCHANGED <<storage, held, DROPCOUNT, takes, tyT, sizeOfOpt>>

\* mutant: take disposes of the value in place and also returns it
CallTake_dropsInPlace ==
    /\ inScope
    /\ held = NoVal
    /\ takes < MaxTakes
    /\ \E g \in Values :
         LET r == take(opt, g)
         IN  /\ held' = r.ret
             /\ opt' = r.self
             /\ ubRead' = r.ub
    /\ DROPCOUNT' = DROPCOUNT + 1
    /\ occupied' = FALSE
    /\ ret' = NoVal
    /\ takes' = takes + 1
    /\ lastOp' = "take"
    /\ UNCHANGED <<storage, inScope, expect, constructed, tyT, sizeOfOpt>>

\* let content = opt.take();
CallTake ==
    /\ inScope
    /\ held = NoVal
    /\ takes < MaxTakes
    /\ \E g \in Values :
         LET r == take(opt, g)
         IN  /\ held' = r.ret
             /\ opt' = r.self
             /\ ubRead' = r.ub
    /\ occupied' = FALSE
    /\ ret' = NoVal
    /\ takes' = takes + 1
    /\ lastOp' = "take"
    /\ UNCHANGED <<storage, inScope, expect, DROPCOUNT, constructed, tyT, sizeOfOpt>>

\* mutant: the read moves the value out of the container
CallAsRef_moves ==
    /\ inScope
    /\ \E g \in Values :
         LET rd == as_ref(opt, g)
         IN  /\ ret' = Valid(rd.val)
             /\ ubRead' = rd.ub
    /\ opt' = none
    /\ lastOp' = "as_ref"
    /\ UNCHANGED <<storage, inScope, occupied, expect, held, DROPCOUNT,
                   constructed, takes, tyT, sizeOfOpt>>

\* *opt.as_ref()
CallAsRef ==
    /\ inScope
    /\ \E g \in Values :
         LET rd == as_ref(opt, g)
         IN  /\ ret' = Valid(rd.val)
             /\ ubRead' = rd.ub
    /\ lastOp' = "as_ref"
    /\ UNCHANGED <<storage, inScope, opt, occupied, expect, held, DROPCOUNT,
                   constructed, takes, tyT, sizeOfOpt>>

\* *opt.as_mut() = w; forming &mut self.some on a region that is no T is
\* undefined behaviour: the store may land or be dropped by the build
CallAsMut(w) ==
    /\ inScope
    /\ opt' \in (IF Empty THEN {WriteSome(opt, w), opt} ELSE {WriteSome(opt, w)})
    /\ ubRead' = Empty
    /\ expect' = IF occupied THEN [src |-> "as_mut", val |-> w] ELSE expect
    /\ ret' = NoVal
    /\ lastOp' = "as_mut"
    /\ UNCHANGED <<storage, inScope, occupied, held, DROPCOUNT,
                   constructed, takes, tyT, sizeOfOpt>>

\* mutant: the container disposes of its contents as Option<T> would
DropContainer_dropsValue ==
    /\ storage = "local"
    /\ inScope
    /\ inScope' = FALSE
    /\ occupied' = FALSE
    /\ ret' = NoVal
    /\ ubRead' = FALSE
    /\ DROPCOUNT' = IF Occupied THEN DROPCOUNT + 1 ELSE DROPCOUNT
    /\ lastOp' = "drop"
    /\ UNCHANGED <<storage, opt, expect, held, constructed, takes, tyT, sizeOfOpt>>

\* drop(opt): a union has no drop glue; nothing looks at the region
DropContainer ==
    /\ storage = "local"
    /\ inScope
    /\ inScope' = FALSE
    /\ occupied' = FALSE
    /\ ret' = NoVal
    /\ ubRead' = FALSE
    /\ lastOp' = "drop"
    /\ UNCHANGED <<storage, opt, expect, held, DROPCOUNT, constructed, takes, tyT, sizeOfOpt>>

\* the value returned by take goes out of scope: T's destructor runs
DisposeTaken ==
    /\ held # NoVal
    /\ held' = NoVal
    /\ DROPCOUNT' = DROPCOUNT + 1
    /\ ret' = NoVal
    /\ ubRead' = FALSE
    /\ lastOp' = "dispose"
    /\ UNCHANGED <<storage, inScope, opt, occupied, expect, constructed, takes,
                   tyT, sizeOfOpt>>

\* any caller, also one that breaks the contract of take/as_ref/as_mut
Next ==
    \/ AssignNone
    \/ \E v \in Values : AssignSome(v)
    \/ CallTake
    \/ CallAsRef
    \/ \E w \in Values : CallAsMut(w)
    \/ DropContainer
    \/ DisposeTaken

Spec == Init /\ [][Next]_vars

\* a caller that consults its occupancy flag before take/as_ref/as_mut
NextProtocol ==
    \/ AssignNone
    \/ \E v \in Values : AssignSome(v)
    \/ (occupied /\ CallTake)
    \/ (occupied /\ CallAsRef)
    \/ \E w \in Values : (occupied /\ CallAsMut(w))
    \/ DropContainer
    \/ DisposeTaken

SpecProtocol == Init /\ [][NextProtocol]_vars

\* ------------------------------------------------- size_of, for any T
InitSize == InitCell /\ tyT \in Layouts /\ sizeOfOpt = NoSize

\* core::mem::size_of::<UntaggedOption<T>>()
MeasureSize ==
    /\ sizeOfOpt = NoSize
    /\ sizeOfOpt' = <<UntaggedOptionSize(tyT)>>
    /\ lastOp' = "size_of"
    /\ UNCHANGED <<storage, inScope, opt, occupied, expect, held, ret, ubRead,
                   DROPCOUNT, constructed, takes, tyT>>

NextSize == MeasureSize

SpecSize == InitSize /\ [][NextSize]_vars

\* ------------------------------------------------------------ properties
ReadOps == {"take", "as_ref", "as_mut"}

\* C1: take on the container produced by some(v) returns v and leaves the
\* container Empty; a some(w) that follows stores exactly w.
C1_RoundTrip ==
    [][ /\ (inScope /\ occupied /\ expect.src = "some" /\ lastOp' = "take")
             => (held' = Valid(expect.val) /\ Empty')
        /\ (lastOp = "take" /\ lastOp' = "some")
             => (opt'.region = Valid(expect'.val)) ]_vars

C1_Witness ==
    /\ lastOp = "take"
    /\ expect.src = "some"
    /\ ~ubRead
    /\ held = Valid(expect.val)
    /\ Empty

\* C2: dropping a container that is Occupied does not run the destructor
\* of its value: DROPCOUNT is unchanged by the drop.
C2_NoImplicitDisposal ==
    [][ (inScope /\ Occupied /\ lastOp' = "drop") => (DROPCOUNT' = DROPCOUNT) ]_vars

C2_Witness ==
    /\ lastOp = "drop"
    /\ ~inScope
    /\ Occupied
    /\ expect.src = "some"
    /\ constructed = 1
    /\ DROPCOUNT = 0

\* C3: the number of destructor runs equals the number of taken values that
\* were disposed of (takes minus the one still held), whatever the number
\* of values constructed into containers.
C3_DisposalOnlyOnExtract ==
    DROPCOUNT = takes - (IF held = NoVal THEN 0 ELSE 1)

C3_Witness ==
    /\ lastOp = "dispose"
    /\ constructed = 2
    /\ takes = 1
    /\ DROPCOUNT = 1

\* C4: on an Occupied container as_ref yields the value last put in: the
\* argument of some before any write, the value written through as_mut
\* after it; in static storage as well.
C4_MutationVisibility ==
    [][ (inScope /\ occupied /\ expect.src \in {"some", "as_mut"} /\ lastOp' = "as_ref")
          => (ret' = Valid(expect.val)) ]_vars

C4_Witness ==
    /\ storage = "static"
    /\ lastOp = "as_ref"
    /\ occupied
    /\ expect.src = "as_mut"
    /\ ret = Valid(expect.val)
    /\ ~ubRead

\* C5: assigning some(w) or none() over an Occupied container runs no
\* destructor, and the container then is what was assigned.
C5_OverwriteLeaks ==
    [][ (inScope /\ Occupied /\ lastOp' \in {"some", "none"})
          => /\ DROPCOUNT' = DROPCOUNT
             /\ (lastOp' = "none" => Empty')
             /\ (lastOp' = "some" => opt'.region = Valid(expect'.val)) ]_vars

C5_Witness ==
    /\ storage = "static"
    /\ lastOp = "some"
    /\ constructed = 2
    /\ takes = 0
    /\ DROPCOUNT = 0
    /\ Occupied

\* C6: a caller that calls take, as_ref and as_mut only while its own
\* occupancy flag is set never reads the container while it is Empty.
C6_SafeUnderProtocol ==
    /\ ~ubRead
    /\ (inScope /\ occupied) => Occupied

C6_Witness ==
    /\ lastOp = "take"
    /\ takes = 2
    /\ ~ubRead
    /\ held \in ValidValues

\* C7: take, as_ref and as_mut on an Empty container are not rejected: the
\* call reads the region that is no T and hands back some value of T.
C7_MisuseNotDetected ==
    [][ (inScope /\ Empty /\ lastOp' \in ReadOps)
          => /\ ubRead'
             /\ (lastOp' = "take" => held' \in ValidValues)
             /\ (lastOp' = "as_ref" => ret' \in ValidValues) ]_vars

C7_Witness ==
    /\ lastOp = "take"
    /\ ubRead
    /\ held \in ValidValues

\* C8: the size of UntaggedOption<T> is the size of T, for every layout of T.
C8_SizeProperty ==
    (sizeOfOpt # NoSize) => (sizeOfOpt = <<tyT.size>>)

C8_Witness ==
    /\ sizeOfOpt # NoSize
    /\ tyT.size = 12
    /\ tyT.align = 4

C10_TakeReturnsLatest ==
    [][ /\ (lastOp' = "as_ref") => (opt' = opt)
        /\ (inScope /\ Occupied /\ lastOp = "as_ref" /\ lastOp' = "as_ref")
             => (ret' = ret)
        /\ (inScope /\ occupied /\ expect.src = "as_mut" /\ lastOp' = "take")
             => (held' = Valid(expect.val)) ]_vars

C10_Witness ==
    /\ lastOp = "take"
    /\ expect.src = "as_mut"
    /\ ~ubRead
    /\ held = Valid(expect.val)

=============================================================================
